---- MODULE Spec2Model ----
(***************************************************************************)
(* Time-entry ledger of the employee time-tracking application:            *)
(* myapp/models.py (CustomUser.authenticate_by_pin, TimeEntry.clock_out,   *)
(* TimeEntry.clock_in) and myapp/views.py (login_view, logout_view,        *)
(* clock_in_view, clock_out_view).                                         *)
(*                                                                         *)
(* Every query or save on the TimeEntry table is one step, so that         *)
(* requests served by different workers interleave between their queries   *)
(* (the project sets no transaction around a request).  The user table is  *)
(* never written, so a view's lookup of the user is taken together with    *)
(* its first query on the ledger.  The server clock is monotonic: a step   *)
(* that calls timezone.now() reads an instant t >= the last one read, so   *)
(* the clock may advance between two steps of the same request.            *)
(*                                                                         *)
(* Datetimes are whole seconds of local wall-clock time; the project runs  *)
(* with time-zone support on (timezone.localtime, used by every handler,   *)
(* rejects naive datetimes), so timezone.now() is the same instant in UTC, *)
(* tz seconds behind the local wall clock.  hours_worked is kept in        *)
(* hundredths of an hour.                                                  *)
(***************************************************************************)
EXTENDS Integers, Sequences, FiniteSets, TLC

VARIABLES
    entries,    \* the TimeEntry table: row i has primary key i
    req,        \* the requests being served, one record per worker
    now,        \* the server clock when it was last read, local wall-clock seconds
    tz          \* UTC offset of the configured TIME_ZONE, in seconds

vars == <<entries, req, now, tz>>

----------------------------------------------------------------------------
(* Bounds of the model *)

\* Rows the TimeEntry table may hold
MaxEntries == 3

\* The workers serving requests: two, as a race needs
Reqs == {1, 2}

----------------------------------------------------------------------------
(* Values *)

\* Python None where a string is expected: an absent 'pin' key of the request
\* body (dict.get), an unset CustomUser.pin, an empty session.
None == "None"

\* SQL NULL of the nullable columns time_out and hours_worked.
NULL == -1

\* datetime of day d at h:m:s, in seconds
HMS(d, h, m, s) == d * 86400 + h * 3600 + m * 60 + s

\* The instants at which the server clock is read: around the two lateness
\* thresholds and midnight when one employee's day is followed, ...
TimePoints ==
    { HMS(1, 7, 0, 0),  HMS(1, 8, 4, 0),  HMS(1, 8, 5, 0),  HMS(1, 8, 6, 0),
      HMS(1, 8, 30, 0), HMS(1, 9, 0, 0),  HMS(1, 9, 0, 1),
      HMS(1, 23, 59, 42), HMS(2, 0, 0, 0) }

\* ... and fewer of them when the requests of several users are served
RaceTimes == { HMS(1, 7, 0, 0), HMS(1, 9, 0, 1) }

\* TIME_ZONE settings considered: UTC and UTC+8.
TzOffsets == {0, 8 * 3600}

\* timezone.localtime(t).date() and .time(), and timezone.now().date()
LocalDate(t) == t \div 86400
TimeOfDay(t) == t % 86400
UtcDate(t) == (t - tz) \div 86400

----------------------------------------------------------------------------
(* User Directory *)

Users == {"E001", "E002", "S001"}
EmployeeIds == Users \cup {"X999"}
Secrets == {None, "1234", "admin"}

\* set_password(None) stores an unusable password
UnusablePassword == [algo |-> "!", digest |-> ""]

\* make_password: a salted one-way hash; only its equality with the hash of the
\* same raw password is observable
make_password(raw) == [algo |-> "pbkdf2_sha256", digest |-> raw]

Directory ==
    [u \in Users |->
        CASE u = "E001" -> [is_staff |-> FALSE, is_superuser |-> FALSE,
                            pin |-> "1234", password |-> UnusablePassword]
          [] u = "E002" -> [is_staff |-> FALSE, is_superuser |-> FALSE,
                            pin |-> None, password |-> UnusablePassword]
          [] u = "S001" -> [is_staff |-> TRUE, is_superuser |-> TRUE,
                            pin |-> None, password |-> make_password("admin")]]

\* AbstractBaseUser.check_password
check_password(u, raw) ==
    /\ raw # None
    /\ Directory[u].password.algo # "!"
    /\ make_password(raw) = Directory[u].password

\* authenticate_by_pin comparing the PIN for every user, staff included
authenticate_by_pin_PinForAll(employee_id, pin) ==
    IF employee_id \notin Users THEN None
    ELSE IF Directory[employee_id].pin = pin THEN employee_id
    ELSE None

\* CustomUser.authenticate_by_pin: the user, or None
authenticate_by_pin(employee_id, pin) ==
    IF employee_id \notin Users THEN None
    ELSE IF Directory[employee_id].is_staff \/ Directory[employee_id].is_superuser
         THEN (IF check_password(employee_id, pin) THEN employee_id ELSE None)
    ELSE IF Directory[employee_id].pin = pin THEN employee_id
    ELSE None

\* The check the three views make themselves before acting
ViewCheck(employee_id, pin) ==
    IF employee_id \notin Users THEN "Employee ID not found"
    ELSE IF Directory[employee_id].pin # pin THEN "Incorrect PIN"
    ELSE "ok"

----------------------------------------------------------------------------
(* Time Entry helpers *)

Ids == 1..Len(entries)

IsOpen(e) == e.time_out = NULL

\* cls.objects.filter(user=user, time_out__isnull=True) on the table es
OpenEntriesOf(es, u) == {i \in 1..Len(es) : es[i].user = u /\ IsOpen(es[i])}

OpenEntries(u) == OpenEntriesOf(entries, u)

\* round(x, 2) rounds the double x = delta / 3600 to the nearest hundredth.
\* When delta / 36 lies halfway between two integers (delta = 18 mod 36) the
\* double nearest to delta / 3600 decides: it lies above the halfway point for
\* the first deltas and below it for the second ones (the halfway deltas that
\* two instants of TimePoints can be apart).
TiesRoundedUp == {18, 61182}
TiesRoundedDown == {53982, 55782, 57222}

\* round(delta.total_seconds() / 3600, 2), in hundredths
Round2(delta) ==
    IF delta % 36 # 18 THEN (delta + 18) \div 36
    ELSE CASE delta \in TiesRoundedUp -> delta \div 36 + 1
           [] delta \in TiesRoundedDown -> delta \div 36

\* clock_out counting an arrival at 09:00 sharp as late
clock_out_LateAtNine(i, t) ==
    LET self == entries[i] IN
    [entries EXCEPT ![i] =
        [self EXCEPT !.time_out = t,
                     !.hours_worked = Round2(t - self.time_in),
                     !.is_late = TimeOfDay(self.time_in) >= HMS(0, 9, 0, 0)]]

\* TimeEntry.clock_out on the in-memory copy of row i, then save()
\* t is the instant timezone.now() returns
clock_out(i, t) ==
    LET self == entries[i] IN
    [entries EXCEPT ![i] =
        [self EXCEPT !.time_out = t,
                     !.hours_worked = Round2(t - self.time_in),
                     !.is_late = TimeOfDay(self.time_in) > HMS(0, 9, 0, 0)]]

\* TimeEntry.objects.create(user=user): auto_now_add, defaults
NewEntry(u, t) ==
    [user |-> u, time_in |-> t, time_out |-> NULL,
     hours_worked |-> NULL, is_late |-> FALSE]

\* cls.objects.filter(user=user, time_in__date=timezone.now().date()).exists()
EntryTodayExists(u, t) ==
    \E i \in Ids : entries[i].user = u /\ LocalDate(entries[i].time_in) = UtcDate(t)

----------------------------------------------------------------------------
(* Requests *)

\* A worker: the request it serves, the handler's locals and its response
Idle == [kind |-> "idle", pc |-> "idle", user |-> None, pin |-> None,
         snap |-> {}, entry |-> 0, resp |-> None]

\* The soft failures of the JSON endpoints
Failures == {"Employee ID not found", "Incorrect PIN", "No active clock in found."}

InFlight == {r \in Reqs : req[r].pc \notin {"idle", "done"}}

\* A handler's return and the sending of its response touch no table, so the
\* response is sent before any other worker's next step.
Quiet == \A r \in Reqs : req[r].pc # "done"

\* Workers are interchangeable: a request is taken by the first free one
FirstFree(r) ==
    /\ Quiet
    /\ req[r].pc = "idle"
    /\ \A q \in Reqs : q < r => req[q].pc # "idle"

Init ==
    /\ entries = <<>>
    /\ req = [r \in Reqs |-> Idle]
    /\ now = HMS(1, 7, 0, 0)
    /\ tz \in TzOffsets

\* login_view, POST branch: login(request, user) and the redirect
LoginView(r, employee_id, pin) ==
    /\ FirstFree(r)
    /\ LET check == ViewCheck(employee_id, pin) IN
       req' = [req EXCEPT ![r] =
           [Idle EXCEPT !.kind = "login", !.pc = "done",
               !.user = employee_id, !.pin = pin,
               !.resp = IF check # "ok" THEN check
                        ELSE IF Directory[employee_id].is_staff
                                \/ Directory[employee_id].is_superuser
                             THEN "login, redirect admin:index"
                             ELSE "login, redirect user_page"]]
    /\ UNCHANGED <<entries, now, tz>>

\* Entries the ledger will hold once the clock-ins being served have created theirs
Committed ==
    Len(entries) + Cardinality({r \in Reqs : req[r].pc = "ci_loop"})

\* clock_in_view up to TimeEntry.clock_in's open_entries query, which runs
\* when the loop starts
ClockInBegin(r, employee_id, pin) ==
    /\ FirstFree(r)
    /\ LET check == ViewCheck(employee_id, pin) IN
       /\ check = "ok" => Committed < MaxEntries
       /\ req' = [req EXCEPT ![r] =
              IF check = "ok"
              THEN [Idle EXCEPT !.kind = "clock_in", !.user = employee_id,
                       !.pin = pin, !.pc = "ci_loop",
                       !.snap = OpenEntries(employee_id)]
              ELSE [Idle EXCEPT !.kind = "clock_in", !.user = employee_id,
                       !.pin = pin, !.pc = "done", !.resp = check]]
    /\ UNCHANGED <<entries, now, tz>>

\* The loop of clock_in with a clock_out that never saves the entry
ClockInCloseEntry_NoSave(r, t) ==
    /\ Quiet
    /\ req[r].pc = "ci_loop"
    /\ t >= now
    /\ \E i \in req[r].snap :
          req' = [req EXCEPT ![r].snap = @ \ {i}]
    /\ now' = t
    /\ UNCHANGED <<entries, tz>>

\* TimeEntry.clock_in: one iteration of the loop, entry.clock_out()
ClockInCloseEntry(r, t) ==
    /\ Quiet
    /\ req[r].pc = "ci_loop"
    /\ t >= now
    /\ \E i \in req[r].snap :
          /\ entries' = clock_out(i, t)
          /\ req' = [req EXCEPT ![r].snap = @ \ {i}]
    /\ now' = t
    /\ UNCHANGED tz

\* create holding a lock on the user's entries and closing those it finds open
ClockInCreate_Locked(r, t) ==
    /\ Quiet
    /\ req[r].pc = "ci_loop"
    /\ req[r].snap = {}
    /\ t >= now
    /\ entries' = Append([i \in Ids |->
                            IF i \in OpenEntries(req[r].user)
                            THEN clock_out(i, t)[i] ELSE entries[i]],
                         NewEntry(req[r].user, t))
    /\ req' = [req EXCEPT ![r].entry = Len(entries) + 1, ![r].pc = "ci_late"]
    /\ now' = t
    /\ UNCHANGED tz

\* TimeEntry.clock_in: cls.objects.create(user=user)
ClockInCreate(r, t) ==
    /\ Quiet
    /\ req[r].pc = "ci_loop"
    /\ req[r].snap = {}
    /\ t >= now
    /\ entries' = Append(entries, NewEntry(req[r].user, t))
    /\ req' = [req EXCEPT ![r].entry = Len(entries) + 1, ![r].pc = "ci_late"]
    /\ now' = t
    /\ UNCHANGED tz

\* TimeEntry.clock_in from the lateness test on, and the view's response.
\* When no entry of the user is dated today, the comparison of the aware
\* time_in_local with the naive expected_start_with_grace raises TypeError.
ClockInLateness(r, t) ==
    /\ Quiet
    /\ req[r].pc = "ci_late"
    /\ t >= now
    /\ req' = [req EXCEPT ![r].pc = "done",
                           ![r].resp = IF EntryTodayExists(req[r].user, t)
                                       THEN "success" ELSE "TypeError"]
    /\ now' = t
    /\ UNCHANGED <<entries, tz>>

\* latest('time_in') taken for earliest('time_in')
Latest_Oldest(u) ==
    {i \in OpenEntries(u) :
        \A j \in OpenEntries(u) : entries[j].time_in >= entries[i].time_in}

\* filter(user=user, time_out__isnull=True).latest('time_in')
Latest(u) ==
    {i \in OpenEntries(u) :
        \A j \in OpenEntries(u) : entries[j].time_in <= entries[i].time_in}

\* clock_out_view without the handler of TimeEntry.DoesNotExist
ClockOutBegin_NoHandler(r, employee_id, pin) ==
    /\ FirstFree(r)
    /\ LET check == ViewCheck(employee_id, pin)
           request == [Idle EXCEPT !.kind = "clock_out", !.user = employee_id,
                          !.pin = pin]
       IN
       IF check # "ok"
       THEN req' = [req EXCEPT ![r] = [request EXCEPT !.pc = "done", !.resp = check]]
       ELSE IF OpenEntries(employee_id) = {}
       THEN req' = [req EXCEPT ![r] =
               [request EXCEPT !.pc = "done", !.resp = "DoesNotExist"]]
       ELSE \E i \in Latest(employee_id) :
               req' = [req EXCEPT ![r] = [request EXCEPT !.pc = "co_close", !.entry = i]]
    /\ UNCHANGED <<entries, now, tz>>

\* clock_out_view up to the query for the open entry and its DoesNotExist handler
ClockOutBegin(r, employee_id, pin) ==
    /\ FirstFree(r)
    /\ LET check == ViewCheck(employee_id, pin)
           request == [Idle EXCEPT !.kind = "clock_out", !.user = employee_id,
                          !.pin = pin]
       IN
       IF check # "ok"
       THEN req' = [req EXCEPT ![r] = [request EXCEPT !.pc = "done", !.resp = check]]
       ELSE IF OpenEntries(employee_id) = {}
       THEN req' = [req EXCEPT ![r] =
               [request EXCEPT !.pc = "done", !.resp = "No active clock in found."]]
       ELSE \E i \in Latest(employee_id) :
               req' = [req EXCEPT ![r] = [request EXCEPT !.pc = "co_close", !.entry = i]]
    /\ UNCHANGED <<entries, now, tz>>

\* clock_out_view: open_entry.clock_out() and the response
ClockOutClose(r, t) ==
    /\ Quiet
    /\ req[r].pc = "co_close"
    /\ t >= now
    /\ entries' = clock_out(req[r].entry, t)
    /\ req' = [req EXCEPT ![r].pc = "done", ![r].resp = "success"]
    /\ now' = t
    /\ UNCHANGED tz

\* The response is sent and the worker is free again
Respond(r) ==
    /\ req[r].pc = "done"
    /\ req' = [req EXCEPT ![r] = Idle]
    /\ UNCHANGED <<entries, now, tz>>

\* No other request is being served
Alone(r) == InFlight \subseteq {r}

\* The server, for requests with credentials drawn from Inputs and a clock read
\* at the instants Times; with oneAtATime each request runs to completion
\* before the next starts.
Serve(Inputs, Times, oneAtATime) ==
    \/ \E r \in Reqs, c \in Inputs :
          (oneAtATime => Alone(r)) /\ LoginView(r, c[1], c[2])
    \/ \E r \in Reqs, c \in Inputs :
          (oneAtATime => Alone(r)) /\ ClockInBegin(r, c[1], c[2])
    \/ \E r \in Reqs, t \in Times :
          (oneAtATime => Alone(r)) /\ ClockInCloseEntry(r, t)
    \/ \E r \in Reqs, t \in Times :
          (oneAtATime => Alone(r)) /\ ClockInCreate(r, t)
    \/ \E r \in Reqs, t \in Times :
          (oneAtATime => Alone(r)) /\ ClockInLateness(r, t)
    \/ \E r \in Reqs, c \in Inputs :
          (oneAtATime => Alone(r)) /\ ClockOutBegin(r, c[1], c[2])
    \/ \E r \in Reqs, t \in Times :
          (oneAtATime => Alone(r)) /\ ClockOutClose(r, t)
    \/ \E r \in Reqs :
          (oneAtATime => Alone(r)) /\ Respond(r)

\* Credentials presented while the ledger is exercised: each user's own PIN
\* field, an unknown id, a wrong PIN
Badges ==
    {<<u, Directory[u].pin>> : u \in {"E001", "S001"}} \cup {<<"X999", "1234">>, <<"E001", "admin">>}

\* Requests are served concurrently
Next == Serve(Badges, RaceTimes, FALSE)

Spec == Init /\ [][Next]_vars

\* Requests are served one at a time
NextSeq == Serve(Badges, RaceTimes, TRUE)

SeqSpec == Init /\ [][NextSeq]_vars

\* One employee's requests, one at a time, around the lateness thresholds
NextDay == Serve({<<"E001", "1234">>}, TimePoints, TRUE)

DaySpec == Init /\ [][NextDay]_vars

\* The ledgers two racing clock-ins of one user leave: two open entries.
\* Each is reached under Spec, with both workers free again.
RacedLedgers ==
    {es \in {<<NewEntry(u, t1), NewEntry(u, t2)>> :
                u \in {"E001", "S001"}, t1 \in RaceTimes, t2 \in RaceTimes} :
        es[1].time_in <= es[2].time_in}

InitRaced ==
    /\ entries \in RacedLedgers
    /\ req = [r \in Reqs |-> Idle]
    /\ now = entries[2].time_in
    /\ tz \in TzOffsets

\* Requests served one at a time on a ledger that a race left
RacedSpec == InitRaced /\ [][NextSeq]_vars

\* Every pair of employee id and secret is presented, one request at a time
NextAuth == Serve(EmployeeIds \X Secrets, {HMS(1, 8, 6, 0)}, TRUE)

AuthSpec == Init /\ [][NextAuth]_vars

----------------------------------------------------------------------------
(* Properties *)

\* The entries of user u that are open in the ledger es
Open(es, u) == {i \in 1..Len(es) : es[i].user = u /\ es[i].time_out = NULL}

\* h hundredths of an hour is a hundredth nearest to d seconds
NearestHundredth(h, d) == 36 * h - d \in -18..18

\* C1: with requests served one at a time from an empty ledger, every user
\* has at most one open entry in every reachable state.
C1_AtMostOneOpen ==
    \A u \in Users : Cardinality(Open(entries, u)) <= 1

\* a second clock-in has closed the user's earlier entry and left the new one open
C1_Witness ==
    \E i \in Ids, j \in Ids :
        /\ i < j
        /\ entries[i].user = entries[j].user
        /\ entries[i].time_out # NULL
        /\ entries[j].time_out = NULL

\* C2: ClockIn's create step neither closes nor refuses: every entry of the
\* user that is open when it runs (one created by a racing ClockIn after this
\* one's query) stays open beside the new one, so two ClockIns that both
\* queried before either created leave the user two open entries.
C2_CreateKeepsOpenEntries ==
    [][\A r \in Reqs :
          (req[r].pc = "ci_loop" /\ req'[r].pc = "ci_late")
          => Open(entries', req[r].user)
                = Open(entries, req[r].user) \cup {Len(entries) + 1}]_vars

\* both racing clock-ins of one user have created, and both entries are open
C2_Witness ==
    \E r \in Reqs, q \in Reqs :
        /\ r # q
        /\ req[r].pc = "ci_late" /\ req[q].pc = "ci_late"
        /\ req[r].user = req[q].user
        /\ {req[r].entry, req[q].entry} \subseteq Open(entries, req[r].user)

\* C3: a ClockIn that has run without interleaving has closed every entry of
\* the user that was open (hours_worked the rounded duration), has created one
\* new open entry, which it returns, and that entry is the user's only open one.
C3_ClockInHealsAndReturns ==
    \A r \in Reqs :
        (req[r].kind = "clock_in" /\ req[r].pc = "done" /\ req[r].resp \notin Failures)
        => /\ req[r].resp = "success"
           /\ req[r].entry \in Ids
           /\ Open(entries, req[r].user) = {req[r].entry}
           /\ \A i \in Ids \ {req[r].entry} :
                 entries[i].user = req[r].user
                 => /\ entries[i].time_out # NULL
                    /\ entries[i].time_out <= entries[req[r].entry].time_in
                    /\ NearestHundredth(entries[i].hours_worked,
                                        entries[i].time_out - entries[i].time_in)

\* entry i is its user's first entry of the local calendar day
FirstOfDay(i) ==
    \A j \in Ids :
        (j < i /\ entries[j].user = entries[i].user)
        => LocalDate(entries[j].time_in) # LocalDate(entries[i].time_in)

\* C4: once ClockIn is through with an entry it created as the user's first of
\* the day, the entry, until it is closed, is late exactly when its local
\* time_in is after 08:05.
C4_LateAtCreation ==
    \A i \in Ids :
        ( /\ FirstOfDay(i)
          /\ entries[i].time_out = NULL
          /\ \A r \in Reqs : ~(req[r].pc = "ci_late" /\ req[r].entry = i) )
        => (entries[i].is_late <=> TimeOfDay(entries[i].time_in) > HMS(0, 8, 5, 0))

\* C5: a closed entry is late exactly when the local time of day of its
\* time_in is after 09:00; 08:30 and 09:00 sharp are not late.
C5_LateAtClose ==
    \A i \in Ids :
        entries[i].time_out # NULL
        => /\ entries[i].is_late <=> HMS(0, 9, 0, 0) < TimeOfDay(entries[i].time_in)
           /\ entries[i].time_in \in {HMS(1, 8, 30, 0), HMS(1, 9, 0, 0)}
                 => ~entries[i].is_late
           /\ entries[i].time_in = HMS(1, 9, 0, 1) => entries[i].is_late

\* entries that came in at 08:30 and at 09:00 sharp have been closed
C5_Witness ==
    \E i \in Ids, j \in Ids :
        /\ entries[i].time_in = HMS(1, 8, 30, 0) /\ entries[i].time_out # NULL
        /\ entries[j].time_in = HMS(1, 9, 0, 0) /\ entries[j].time_out # NULL

\* C6: a clock-out of an authenticated user without an open entry answers
\* 'No active clock in found.', and a request that answers with a failure
\* does so in its first step, which leaves the ledger as it was.
C6_FailureLeavesLedger ==
    [][\A r \in Reqs :
          /\ (req'[r].resp \in Failures /\ req[r].resp \notin Failures)
             => (req[r].pc = "idle" /\ entries' = entries)
          /\ ( /\ req[r].pc = "idle"
               /\ req'[r].kind = "clock_out"
               /\ req'[r].user \in Users
               /\ Directory[req'[r].user].pin = req'[r].pin
               /\ Open(entries, req'[r].user) = {} )
             => req'[r].resp = "No active clock in found."]_vars

\* a clock-out found no open entry in a ledger that holds entries
C6_Witness ==
    \E r \in Reqs :
        /\ req[r].kind = "clock_out"
        /\ req[r].resp = "No active clock in found."
        /\ Len(entries) > 0

\* The requests that carry credentials
Presented == {r \in Reqs : req[r].kind # "idle"}

Privileged(u) == Directory[u].is_staff \/ Directory[u].is_superuser

\* C7, as claimed: Authenticate fails for a known id with an outcome distinct
\* from the one it gives for an unknown id.
C7_UnauthorizedIsNotNotFound ==
    \A r \in Presented :
        (req[r].user \in Users
            /\ authenticate_by_pin(req[r].user, req[r].pin) # req[r].user)
        => authenticate_by_pin(req[r].user, req[r].pin)
              # authenticate_by_pin("X999", req[r].pin)

\* C7, amended: Authenticate returns the user exactly when the secret verifies
\* against the hashed password (staff, superuser) or equals the stored PIN
\* (regular user), and None otherwise, for a known id as for an unknown one.
C7_Authenticate ==
    \A r \in Presented :
        LET e == req[r].user
            secret == req[r].pin
            result == authenticate_by_pin(e, secret)
        IN  /\ result \in {e, None}
            /\ e \notin Users => result = None
            /\ (e \in Users /\ Privileged(e))
               => (result = e <=> /\ secret # None
                                  /\ Directory[e].password = make_password(secret))
            /\ (e \in Users /\ ~Privileged(e))
               => (result = e <=> secret = Directory[e].pin)

\* a staff user presents the right password
C7_Witness ==
    \E r \in Presented :
        /\ req[r].user = "S001" /\ req[r].pin = "admin"
        /\ authenticate_by_pin(req[r].user, req[r].pin) = "S001"

\* C8: an endpoint goes past its credential check exactly when Authenticate
\* returns the user for the id and secret of the request.
C8_ActsOnlyIfAuthenticated ==
    \A r \in Presented :
        (req[r].resp \notin {"Employee ID not found", "Incorrect PIN"})
        <=> authenticate_by_pin(req[r].user, req[r].pin) = req[r].user

\* C9: under every interleaving a closed entry keeps its time_out and
\* hours_worked, and the ledger never loses an entry.
C9_ClosedOnce ==
    [][/\ Len(entries') >= Len(entries)
       /\ \A i \in Ids :
             entries[i].time_out # NULL
             => /\ entries'[i].time_out = entries[i].time_out
                /\ entries'[i].hours_worked = entries[i].hours_worked]_vars

====
